---- MODULE Spec2Model ----
(***************************************************************************)
(* Teltonika codec gateway: the TCP listener (UdpServerManager), the       *)
(* command registry and Codec 12 correlator (CommandManager) and the       *)
(* admission state (SecurityManager), as a state machine of the event      *)
(* handlers Node runs one at a time.                                       *)
(***************************************************************************)
EXTENDS Integers, Sequences, FiniteSets, TLC

(* ------------------------------ bounds -------------------------------- *)
\* Connections accepted in one run; randomUUID() gives each a fresh uuid.
MaxConn == 2
\* Inputs of one run: connections accepted, handshakes accepted, sendCommand
\* calls and Codec 12 responses parsed, together.
MaxInputs == 5

(* ------------------------------ domains ------------------------------- *)
UUIDs == 1..MaxConn
IPs == {"ip1"}
\* Handshake IMEIs the devices send, by name; ImeiDigits gives the digits.
IMEIs == {"imeiA", "imeiB", "imeiBad"}
\* The IMEIs commands are addressed to.
SendImeis == {"imeiA", "imeiB"}
Commands == {"A", "B"}

ImeiDigits(i) ==
  CASE i = "imeiA"   -> <<3,5,3,6,9,1,8,4,4,2,8,8,7,6,0>>
    [] i = "imeiB"   -> <<4,9,0,1,5,4,2,0,3,2,3,7,5,1,8>>
    [] i = "imeiC"   -> <<3,5,6,9,3,8,0,3,5,6,4,3,8,0,9>>
    [] i = "imeiBad" -> <<3,5,3,6,9,1,8,4,4,2,8,8,7,6,1>>
    \* 15 characters, the last one not a decimal digit (10 stands for it)
    [] i = "imeiFmt" -> <<3,5,3,6,9,1,8,4,4,2,8,8,7,6,10>>

NoUuid == 0
NoConn == 0
NoSocket == [imei |-> "", ip |-> ""]

NoAttempt == [attempts |-> 0, firstAttempt |-> 0, blockedUntil |-> 0]

VARIABLES
  sock,          \* per uuid: the net.Socket's life: none / open / destroyed
                 \* (destroy() called, 'close' to come) / errored ('error'
                 \* emitted, 'close' to come) / closed
  clientIp,      \* per uuid: sock.remoteAddress captured by the connection handler
  sockets,       \* UdpServerManager.sockets: uuid -> {imei, ip} or NoSocket
  connections,   \* CommandManager.connections: uuid -> index into objs, or NoConn
  objs,          \* the DeviceConnection objects ever created: {imei, uuid, pendingCommands}
  imeiToUuid,    \* CommandManager.imeiToUuid: imei -> uuid or NoUuid
  sends,         \* every sendCommand call: its promise and its timer
  frames,        \* the Codec 12 response frames parsed with success, by the
                 \* uuid of their socket; a frame's place in the list stands
                 \* for the text it carries
  config,        \* SecurityManager.config
  connectionAttempts, \* SecurityManager.connectionAttempts: ip -> attempt record
  blockedIps,    \* SecurityManager.blockedIps
  devicesByIp,   \* SecurityManager.devicesByIp: ip -> set of imeis (no entry = {})
  now,           \* Date.now(), in milliseconds
  out,           \* what the latest handler wrote to sockets and emitted, in order
  crashed,       \* an exception left a handler uncaught: the process is gone
  probe,         \* a string handed to the IMEI checks on its own, and their verdict
  codec,         \* a command text handed to the Codec 12 functions on its own:
                 \* the frame built for it and what the parser makes of the frame
  clients,       \* index.ts: whether its listeners are attached to the server,
                 \* and the imeis its clients table holds an MQTT client for
  hook           \* GPSWebhookForwarder: its fields, where its processQueue loop
                 \* stands, and the POSTs made so far for each item

regVars == <<sockets, connections, objs, imeiToUuid>>
secVars == <<config, connectionAttempts, blockedIps, devicesByIp, now>>
vars == <<sock, clientIp, sockets, connections, objs, imeiToUuid, sends, frames,
          config, connectionAttempts, blockedIps, devicesByIp, now, out, crashed,
          probe, codec, clients, hook>>

\* The server on its own, none of index.ts's listeners attached.
NoClients == [attached |-> FALSE, held |-> {}]

\* new GPSWebhookForwarder() with GPS_WEBHOOK_ENABLED unset: nothing queued,
\* nothing forwarded, no POST made. Items are numbered in the order they are
\* forwarded; data is the item the loop holds, 0 when it holds none.
NoHook == [enabled |-> FALSE, queue |-> <<>>, isProcessing |-> FALSE,
           failureCount |-> 0, pc |-> "idle", data |-> 0, forwarded |-> 0,
           posts |-> <<>>, delivered |-> {}]

NoProbe == [imei |-> <<>>, verdict |-> "none"]

\* No Codec12Response yet.
NoParse == [success |-> FALSE, response |-> <<>>, error |-> "none"]

NoCodec == [text |-> <<>>, frame |-> <<>>, parsed |-> NoParse]

\* sock.write(bytes) on the socket of uuid u.
Wr(u, bytes) == [k |-> "write", u |-> u, imei |-> "", val |-> bytes]
\* this.emit(k, ...): the event's name, its uuid (NoUuid when it carries none),
\* its imei and its payload.
Ev(k, u, imei, val) == [k |-> k, u |-> u, imei |-> imei, val |-> val]

(* ------------------------- SecurityManager ---------------------------- *)
\* setInterval(() => this.cleanup(), 60000)
CleanupInterval == 60000

\* loadConfig with no SECURITY_* variable set in the environment.
DefaultConfig ==
  [imeiWhitelistEnabled |-> FALSE, imeiWhitelist |-> <<>>,
   ipWhitelistEnabled |-> FALSE, ipWhitelist |-> {},
   maxDevicesPerIp |-> 10, maxConnectionAttempts |-> 5,
   connectionAttemptWindow |-> 300000]

\* Array.prototype.includes on a list.
includes(list, x) == \E k \in 1..Len(list) : list[k] = x

\* /^\d{15}$/ on the handshake's IMEI.
imeiFormatOk(d) == Len(d) = 15 /\ \A k \in 1..Len(d) : d[k] \in 0..9

RECURSIVE luhnSum(_, _, _)
\* The loop of luhnCheck: i runs from the last digit down, isEven flips each step.
luhnSum(d, i, isEven) ==
  IF i < 1 THEN 0
  ELSE LET dbl == IF isEven THEN 2 * d[i] ELSE d[i]
           digit == IF isEven /\ dbl > 9 THEN dbl - 9 ELSE dbl
       IN digit + luhnSum(d, i - 1, ~isEven)

\* luhnCheck with the doubling started at the last digit.
luhnCheckShifted(d) == luhnSum(d, Len(d), TRUE) % 10 = 0

luhnCheck(d) == luhnSum(d, Len(d), FALSE) % 10 = 0

\* validateImei up to its allow-list step: the format test, then luhnCheck.
imeiWellFormed(d) == imeiFormatOk(d) /\ luhnCheck(d)

\* validateImei without its checksum step.
validateImeiNoLuhn(imei) ==
  /\ imeiFormatOk(ImeiDigits(imei))
  /\ (config.imeiWhitelistEnabled => includes(config.imeiWhitelist, imei))

\* validateImei without its allow-list step.
validateImeiNoList(imei) == imeiWellFormed(ImeiDigits(imei))

validateImei(imei) ==
  /\ imeiWellFormed(ImeiDigits(imei))
  /\ (config.imeiWhitelistEnabled => includes(config.imeiWhitelist, imei))

\* validateConnection with the attempt counted before the ban and allow-list
\* tests, so that a denied call is counted too.
validateConnectionCounted(ip, imei) ==
  LET att0 == connectionAttempts[ip]
      stillBlocked == /\ ip \in blockedIps
                      /\ att0.blockedUntil # 0
                      /\ att0.blockedUntil > now
      bl1 == blockedIps \ {ip}
      fresh == \/ att0 = NoAttempt
               \/ (now - att0.firstAttempt) > config.connectionAttemptWindow
      att1 == IF fresh
              THEN [attempts |-> 1, firstAttempt |-> now, blockedUntil |-> 0]
              ELSE [att0 EXCEPT !.attempts = @ + 1]
      ca1 == [connectionAttempts EXCEPT ![ip] = att1]
  IN  IF stillBlocked
      THEN [allowed |-> FALSE, reason |-> "IP temporarily blocked",
            ca |-> ca1, bl |-> blockedIps]
      ELSE IF config.ipWhitelistEnabled /\ ip \notin config.ipWhitelist
      THEN [allowed |-> FALSE, reason |-> "IP not authorized",
            ca |-> ca1, bl |-> bl1]
      ELSE IF ~fresh /\ att1.attempts > config.maxConnectionAttempts
      THEN [allowed |-> FALSE, reason |-> "Too many connection attempts",
            ca |-> [connectionAttempts EXCEPT
                      ![ip] = [att1 EXCEPT !.blockedUntil =
                                 now + config.connectionAttemptWindow]],
            bl |-> bl1 \cup {ip}]
      ELSE IF /\ imei # ""
              /\ imei \notin devicesByIp[ip]
              /\ Cardinality(devicesByIp[ip]) >= config.maxDevicesPerIp
      THEN [allowed |-> FALSE, reason |-> "Maximum devices per IP exceeded",
            ca |-> ca1, bl |-> bl1]
      ELSE [allowed |-> TRUE, reason |-> "", ca |-> ca1, bl |-> bl1]

\* validateConnection(ip, imei?): the verdict and the attempt and block state it
\* leaves. imei = "" stands for the omitted argument.
validateConnection(ip, imei) ==
  LET att0 == connectionAttempts[ip]
      stillBlocked == /\ ip \in blockedIps
                      /\ att0.blockedUntil # 0
                      /\ att0.blockedUntil > now
      bl1 == blockedIps \ {ip}
      fresh == \/ att0 = NoAttempt
               \/ (now - att0.firstAttempt) > config.connectionAttemptWindow
      att1 == IF fresh
              THEN [attempts |-> 1, firstAttempt |-> now, blockedUntil |-> 0]
              ELSE [att0 EXCEPT !.attempts = @ + 1]
      ca1 == [connectionAttempts EXCEPT ![ip] = att1]
  IN  IF stillBlocked
      THEN [allowed |-> FALSE, reason |-> "IP temporarily blocked",
            ca |-> connectionAttempts, bl |-> blockedIps]
      ELSE IF config.ipWhitelistEnabled /\ ip \notin config.ipWhitelist
      THEN [allowed |-> FALSE, reason |-> "IP not authorized",
            ca |-> connectionAttempts, bl |-> bl1]
      ELSE IF ~fresh /\ att1.attempts > config.maxConnectionAttempts
      THEN [allowed |-> FALSE, reason |-> "Too many connection attempts",
            ca |-> [connectionAttempts EXCEPT
                      ![ip] = [att1 EXCEPT !.blockedUntil =
                                 now + config.connectionAttemptWindow]],
            bl |-> bl1 \cup {ip}]
      ELSE IF /\ imei # ""
              /\ imei \notin devicesByIp[ip]
              /\ Cardinality(devicesByIp[ip]) >= config.maxDevicesPerIp
      THEN [allowed |-> FALSE, reason |-> "Maximum devices per IP exceeded",
            ca |-> ca1, bl |-> bl1]
      ELSE [allowed |-> TRUE, reason |-> "", ca |-> ca1, bl |-> bl1]

\* registerDeviceConnection: the new devicesByIp (the caller also deletes the
\* ip's attempt record).
registerDeviceConnection(dev, ip, imei) == [dev EXCEPT ![ip] = @ \cup {imei}]

unregisterDeviceConnection(dev, ip, imei) == [dev EXCEPT ![ip] = @ \ {imei}]

\* registerDeviceConnection's this.connectionAttempts.delete(ip).
deleteAttempts(ca, ip) == [ca EXCEPT ![ip] = NoAttempt]

(* -------------------------- CommandManager ---------------------------- *)
Pending == [kind |-> "pending", frame |-> 0]
Outcome(k) == [kind |-> k, frame |-> 0]

\* resolve / reject of a promise: the first settlement stands.
Settle(ss, s, r) ==
  IF ss[s].result.kind = "pending" THEN [ss EXCEPT ![s].result = r] ELSE ss

clearTimeout(ss, s) ==
  IF ss[s].timer = "armed" THEN [ss EXCEPT ![s].timer = "cleared"] ELSE ss

\* pendingCommands.findIndex(p => p.command === command): 1-based, 0 for -1.
findIndex(q, ss, command) ==
  IF \E k \in 1..Len(q) : ss[q[k]].command = command
  THEN CHOOSE k \in 1..Len(q) :
         /\ ss[q[k]].command = command
         /\ \A j \in 1..(k - 1) : ss[q[j]].command # command
  ELSE 0

\* pendingCommands.splice(index, 1) behind the index !== -1 test.
splice(q, k) ==
  IF k = 0 THEN q
  ELSE [j \in 1..(Len(q) - 1) |-> IF j < k THEN q[j] ELSE q[j + 1]]

\* A lookup that falls back to any registered connection.
getConnectionByImeiAny(imei) ==
  IF imeiToUuid[imei] # NoUuid /\ connections[imeiToUuid[imei]] # NoConn
  THEN connections[imeiToUuid[imei]]
  ELSE IF \E u \in UUIDs : connections[u] # NoConn
       THEN connections[CHOOSE u \in UUIDs : connections[u] # NoConn]
       ELSE NoConn

getConnectionByImei(imei) ==
  IF imeiToUuid[imei] # NoUuid THEN connections[imeiToUuid[imei]] ELSE NoConn

isDeviceConnected(imei) == imeiToUuid[imei] # NoUuid

\* The socket a DeviceConnection holds is the one of its uuid.
socketDestroyed(u) == sock[u] \in {"destroyed", "errored", "closed"}

RECURSIVE rejectAllClearOnly(_, _)
\* unregisterDevice's loop with clearTimeout and no reject.
rejectAllClearOnly(ss, q) ==
  IF q = <<>> THEN ss ELSE rejectAllClearOnly(clearTimeout(ss, Head(q)), Tail(q))

RECURSIVE rejectAll(_, _)
\* unregisterDevice's loop: clearTimeout and reject for every queued entry.
rejectAll(ss, q) ==
  IF q = <<>> THEN ss
  ELSE rejectAll(Settle(clearTimeout(ss, Head(q)), Head(q), Outcome("disconnected")),
                 Tail(q))

\* unregisterDevice(uuid) on the state st = [o: objs, s: sends, c: connections,
\* i: imeiToUuid].
unregisterDevice(st, uuid) ==
  IF st.c[uuid] = NoConn THEN st
  ELSE LET conn == st.o[st.c[uuid]]
       IN [st EXCEPT !.s = rejectAll(st.s, conn.pendingCommands),
                     !.i = [st.i EXCEPT ![conn.imei] = NoUuid],
                     !.c = [st.c EXCEPT ![uuid] = NoConn]]

\* registerDevice leaving the IMEI index as it was.
registerDeviceNoIndex(st, imei, uuid) ==
  [st EXCEPT !.o = Append(st.o, [imei |-> imei, uuid |-> uuid,
                                 pendingCommands |-> <<>>]),
             !.c = [st.c EXCEPT ![uuid] = Len(st.o) + 1]]

\* registerDevice(imei, uuid, socket): a new DeviceConnection with an empty queue.
registerDevice(st, imei, uuid) ==
  [st EXCEPT !.o = Append(st.o, [imei |-> imei, uuid |-> uuid,
                                 pendingCommands |-> <<>>]),
             !.c = [st.c EXCEPT ![uuid] = Len(st.o) + 1],
             !.i = [st.i EXCEPT ![imei] = uuid]]

\* The callback sendCommand hands to socket.write, called with an error.
writeErrorCallback(st, s) ==
  LET c == st.s[s].conn
      q == st.o[c].pendingCommands
      s1 == clearTimeout(st.s, s)
      s2 == Settle(s1, s, Outcome("writeError"))
  IN [st EXCEPT !.o = [st.o EXCEPT ![c].pendingCommands =
                         splice(q, findIndex(q, st.s, st.s[s].command))],
                !.s = s2]

RECURSIVE failWrites(_, _)
failWrites(st, list) ==
  IF list = <<>> THEN st
  ELSE failWrites(writeErrorCallback(st, Head(list)), Tail(list))

\* The sends written to the socket of uuid u from send k on, oldest first.
RECURSIVE writesFrom(_, _)
writesFrom(u, k) ==
  IF k > Len(sends) THEN <<>>
  ELSE IF sends[k].conn # NoConn /\ objs[sends[k].conn].uuid = u
       THEN <<k>> \o writesFrom(u, k + 1)
       ELSE writesFrom(u, k + 1)

\* The last send on u's socket that a frame of the device completed: its write,
\* and every write before it, has reached the device.
lastAnswered(u) ==
  LET S == {k \in 1..Len(sends) : /\ sends[k].conn # NoConn
                                   /\ objs[sends[k].conn].uuid = u
                                   /\ sends[k].result.kind \in {"response", "parseError"}}
  IN IF S = {} THEN 0 ELSE CHOOSE k \in S : \A j \in S : j <= k

\* The writes that can still be in flight when u's socket fails: writes of one
\* socket complete in order, so any suffix of these.
mayBeInFlight(u) == writesFrom(u, lastAnswered(u) + 1)

lastK(list, k) == SubSeq(list, Len(list) - k + 1, Len(list))

\* The inputs taken so far.
inputs ==
  Cardinality({u \in DOMAIN sock : sock[u] # "none"}) + Len(objs) + Len(sends)
    + Len(frames)

State == [o |-> objs, s |-> sends, c |-> connections, i |-> imeiToUuid]

Install(st) ==
  /\ objs' = st.o
  /\ sends' = st.s
  /\ connections' = st.c
  /\ imeiToUuid' = st.i

(* ------------------------------ Init ---------------------------------- *)
Init ==
  /\ sock = [u \in UUIDs |-> "none"]
  /\ clientIp = [u \in UUIDs |-> ""]
  /\ sockets = [u \in UUIDs |-> NoSocket]
  /\ connections = [u \in UUIDs |-> NoConn]
  /\ objs = <<>>
  /\ imeiToUuid = [i \in IMEIs |-> NoUuid]
  /\ sends = <<>>
  /\ frames = <<>>
  /\ config = DefaultConfig
  /\ connectionAttempts = [ip \in IPs |-> NoAttempt]
  /\ blockedIps = {}
  /\ devicesByIp = [ip \in IPs |-> {}]
  /\ now = 0
  /\ out = <<>>
  /\ crashed = FALSE
  /\ probe = NoProbe
  /\ codec = NoCodec
  /\ clients = NoClients
  /\ hook = NoHook

(* ------------------------------ index.ts ------------------------------ *)
\* server.on("connected") sets clients[imei], server.on("disconnected")
\* deletes it when it is there: the table after the listeners have run on
\* the events from the k-th on, in the order the handler emitted them.
RECURSIVE onEvents(_, _, _)
onEvents(held, events, k) ==
  IF k > Len(events) THEN held
  ELSE LET e == events[k]
           next == CASE e.k = "connected"    -> held \cup {e.imei}
                     [] e.k = "disconnected" -> held \ {e.imei}
                     [] OTHER                -> held
       IN onEvents(next, events, k + 1)

listeners(c, events) ==
  IF c.attached THEN [c EXCEPT !.held = onEvents(c.held, events, 1)] ELSE c

\* server.on("message") reads clients[imei].client: a TypeError when the
\* table has no entry for the imei.
messageThrows(imei) == clients.attached /\ imei \notin clients.held

(* ----------------------- UdpServerManager ----------------------------- *)
\* server.on('connection'): the next fresh uuid, validateConnection(clientIp).
Connect(u, ip) ==
  /\ ~crashed
  /\ UNCHANGED <<probe, codec, hook>>
  /\ out' = <<>>
  /\ sock[u] = "none"
  /\ \A v \in DOMAIN sock : v < u => sock[v] # "none"
  /\ LET v == validateConnection(ip, "")
     IN /\ connectionAttempts' = v.ca
        /\ blockedIps' = v.bl
        /\ sock' = [sock EXCEPT ![u] = IF v.allowed THEN "open" ELSE "destroyed"]
  /\ clientIp' = [clientIp EXCEPT ![u] = ip]
  /\ UNCHANGED <<regVars, sends, frames, config, devicesByIp, now, crashed>>
  /\ clients' = listeners(clients, out')

\* sock.on("data") with a 17-byte chunk: listenForDevice gives Imei and no Content.
RecvHandshake(u, imei) ==
  /\ ~crashed
  /\ UNCHANGED <<probe, codec, hook>>
  /\ sock[u] = "open"
  /\ LET ip == clientIp[u]
         v == validateConnection(ip, imei)
     IN IF ~validateImei(imei)
        THEN \* sock.write([0]); sock.destroy()
             /\ sock' = [sock EXCEPT ![u] = "destroyed"]
             /\ out' = <<Wr(u, <<0>>)>>
             /\ UNCHANGED <<regVars, sends, connectionAttempts, blockedIps, devicesByIp>>
        ELSE IF ~v.allowed
        THEN /\ sock' = [sock EXCEPT ![u] = "destroyed"]
             /\ connectionAttempts' = v.ca
             /\ blockedIps' = v.bl
             /\ out' = <<Wr(u, <<0>>)>>
             /\ UNCHANGED <<regVars, sends, devicesByIp>>
        ELSE \* this.sockets[uuid] = ...; sock.write([1]); deviceConnected(...)
             /\ sockets' = [sockets EXCEPT ![u] = [imei |-> imei, ip |-> ip]]
             /\ Install(registerDevice(State, imei, u))
             /\ devicesByIp' = registerDeviceConnection(devicesByIp, ip, imei)
             /\ connectionAttempts' = deleteAttempts(v.ca, ip)
             /\ blockedIps' = v.bl
             /\ out' = <<Wr(u, <<1>>), Ev("connected", u, imei, <<>>)>>
             /\ UNCHANGED sock
  /\ UNCHANGED <<clientIp, frames, config, now, crashed>>
  /\ clients' = listeners(clients, out')

\* handlePossibleResponse resolving every queued entry with the one response.
handlePossibleResponseAll(st, uuid, parsed) ==
  IF st.c[uuid] = NoConn THEN st
  ELSE LET c == st.c[uuid]
           q == st.o[c].pendingCommands
           all[n \in 0..Len(q)] ==
             IF n = 0 THEN st.s
             ELSE Settle(clearTimeout(all[n - 1], q[n]), q[n], parsed)
       IN [st EXCEPT !.o = [st.o EXCEPT ![c].pendingCommands = <<>>],
                     !.s = all[Len(q)]]

\* handlePossibleResponse taking, for a uuid with no connection, the first
\* registered connection instead of returning.
handlePossibleResponseAny(st, uuid, parsed) ==
  LET known == {v \in DOMAIN st.c : st.c[v] # NoConn}
      c == IF st.c[uuid] # NoConn THEN st.c[uuid]
           ELSE IF known # {} THEN st.c[CHOOSE v \in known : \A w \in known : v <= w]
           ELSE NoConn
  IN IF c = NoConn \/ st.o[c].pendingCommands = <<>> THEN st
     ELSE [st EXCEPT
             !.o = [st.o EXCEPT ![c].pendingCommands = Tail(@)],
             !.s = Settle(clearTimeout(st.s, Head(st.o[c].pendingCommands)),
                          Head(st.o[c].pendingCommands), parsed)]

\* handlePossibleResponse(uuid, data) for data that isCodec12Response accepts;
\* parsed is what parseCodec12Response returns for it.
handlePossibleResponse(st, uuid, parsed) ==
  IF st.c[uuid] = NoConn THEN st
  ELSE LET c == st.c[uuid]
           q == st.o[c].pendingCommands
       IN IF q = <<>> THEN st
          ELSE [st EXCEPT
                  !.o = [st.o EXCEPT ![c].pendingCommands = Tail(q)],
                  !.s = Settle(clearTimeout(st.s, Head(q)), Head(q), parsed)]

\* handlePossibleResponse with its else branch left out.
unsolicitedDropped(u, val) == <<>>

\* handlePossibleResponse with nothing queued: this.emit('response', ...).
unsolicited(u, val) ==
  IF connections[u] # NoConn /\ objs[connections[u]].pendingCommands = <<>>
  THEN <<Ev("response", u, objs[connections[u]].imei, val)>>
  ELSE <<>>

\* sock.on("data") with a chunk that isCodec12Response accepts and
\* parseCodec12Response parses: { success: true, response }.
RecvResponse(u) ==
  /\ ~crashed
  /\ UNCHANGED <<probe, codec, hook>>
  /\ sock[u] = "open"
  /\ frames' = Append(frames, u)
  /\ Install(handlePossibleResponse(State, u,
                [kind |-> "response", frame |-> Len(frames) + 1]))
  /\ out' = unsolicited(u, <<Len(frames) + 1>>)
             \o (IF sockets[u] # NoSocket
                 THEN <<Ev("commandResponse", u, sockets[u].imei, <<Len(frames) + 1>>)>>
                 ELSE <<>>)
  /\ UNCHANGED <<sock, clientIp, sockets, secVars, crashed>>
  /\ clients' = listeners(clients, out')

\* sock.on("data") with a chunk that isCodec12Response accepts and
\* parseCodec12Response fails on: { success: false, error }.
RecvBadResponse(u) ==
  /\ ~crashed
  /\ UNCHANGED <<probe, codec, hook>>
  /\ sock[u] = "open"
  /\ Install(handlePossibleResponse(State, u, Outcome("parseError")))
  /\ out' = unsolicited(u, <<>>)
  /\ UNCHANGED <<sock, clientIp, sockets, frames, secVars, crashed>>
  /\ clients' = listeners(clients, out')

\* sock.on("error"): the callbacks of the k writes still in flight run first,
\* with the error; 'close' follows.
SocketError(u) ==
  /\ ~crashed
  /\ UNCHANGED <<probe, codec, hook>>
  /\ out' = <<>>
  /\ sock[u] = "open"
  /\ sock' = [sock EXCEPT ![u] = "errored"]
  /\ \E k \in 0..Len(mayBeInFlight(u)) :
     LET st == failWrites(State, lastK(mayBeInFlight(u), k))
     IN IF sockets[u] # NoSocket
        THEN /\ Install(unregisterDevice(st, u))
             /\ devicesByIp' = unregisterDeviceConnection(devicesByIp, sockets[u].ip,
                                                          sockets[u].imei)
             /\ sockets' = [sockets EXCEPT ![u] = NoSocket]
        ELSE /\ Install(st)
             /\ UNCHANGED <<sockets, devicesByIp>>
  /\ UNCHANGED <<clientIp, frames, config, connectionAttempts, blockedIps, now, crashed>>
  /\ clients' = listeners(clients, out')

\* sock.on('close'): after the peer closed, after sock.destroy(), or after
\* 'error' (whose writes have failed already).
SocketClose(u) ==
  /\ ~crashed
  /\ UNCHANGED <<probe, codec, hook>>
  /\ sock[u] \in {"open", "destroyed", "errored"}
  /\ sock' = [sock EXCEPT ![u] = "closed"]
  /\ \E k \in 0..(IF sock[u] = "errored" THEN 0 ELSE Len(mayBeInFlight(u))) :
     LET st == failWrites(State, lastK(mayBeInFlight(u), k))
     IN IF sockets[u] = NoSocket
        THEN /\ Install(st)
             /\ out' = <<>>
             /\ UNCHANGED <<sockets, devicesByIp>>
        ELSE /\ Install(unregisterDevice(st, u))
             /\ out' = <<Ev("disconnected", NoUuid, sockets[u].imei, <<>>)>>
             /\ devicesByIp' = unregisterDeviceConnection(devicesByIp, sockets[u].ip,
                                                          sockets[u].imei)
             /\ sockets' = [sockets EXCEPT ![u] = NoSocket]
  /\ UNCHANGED <<clientIp, frames, config, connectionAttempts, blockedIps, now, crashed>>
  /\ clients' = listeners(clients, out')

\* Buffer.writeUInt32LE, the byte order reversed.
writeUInt32LE(n) ==
  <<n % 256, (n \div 256) % 256, (n \div 65536) % 256, (n \div 16777216) % 256>>

\* Buffer.alloc(4).writeUInt32BE(n): the four bytes, most significant first.
writeUInt32BE(n) ==
  <<(n \div 16777216) % 256, (n \div 65536) % 256, (n \div 256) % 256, n % 256>>

\* The records left in wire order.
unsorted(records) == records

RECURSIVE insert(_, _)
\* x goes behind every element whose Timestamp is not later than its own.
insert(sorted, x) ==
  IF sorted = <<>> THEN <<x>>
  ELSE IF Head(sorted).ts <= x.ts
       THEN <<Head(sorted)>> \o insert(Tail(sorted), x)
       ELSE <<x>> \o sorted

RECURSIVE sortFrom(_, _, _)
sortFrom(records, k, acc) ==
  IF k > Len(records) THEN acc
  ELSE sortFrom(records, k + 1, insert(acc, records[k]))

\* AVL_Datas.sort((a, b) => a.Timestamp.getTime() - b.Timestamp.getTime()):
\* ascending by Timestamp, equal ones in their wire order.
sort(records) == sortFrom(records, 1, <<>>)

\* sock.on("data") with a chunk ProtocolParser parses as an AVL packet: records
\* are its AVL_Datas in wire order, Quantity1 their number.
RecvAvl(u, records) ==
  /\ ~crashed
  /\ UNCHANGED <<probe, codec, clients, hook>>
  /\ sock[u] = "open"
  /\ IF sockets[u] = NoSocket
     THEN \* this.sockets[uuid].imei on undefined: a TypeError nothing catches
          /\ crashed' = TRUE
          /\ out' = <<>>
     ELSE LET sorted == sort(records)
              events == [k \in 1..Len(sorted) |->
                          Ev("message", u, sockets[u].imei,
                             <<sorted[k].ts, sorted[k].n>>)]
          IN IF events # <<>> /\ messageThrows(sockets[u].imei)
             THEN \* the listener throws inside the first emit
                  /\ crashed' = TRUE
                  /\ out' = <<events[1]>>
             ELSE /\ out' = events \o <<Wr(u, writeUInt32BE(Len(records)))>>
                  /\ UNCHANGED crashed
  /\ UNCHANGED <<sock, clientIp, regVars, sends, frames, secVars>>

\* sock.on("data") with a chunk listenForDevice gives up on: the preamble is
\* not 00000000 or ProtocolParser throws, so Content and Imei are both undefined.
RecvMalformed(u) ==
  /\ ~crashed
  /\ UNCHANGED <<probe, codec, hook>>
  /\ sock[u] = "open"
  /\ out' = <<>>
  /\ UNCHANGED <<sock, clientIp, regVars, sends, frames, secVars, crashed>>
  /\ clients' = listeners(clients, out')

\* The clock moves on by one cleanup period.
Tick ==
  /\ ~crashed
  /\ UNCHANGED <<probe, codec, clients, hook>>
  /\ now' = now + CleanupInterval
  /\ UNCHANGED <<sock, clientIp, regVars, sends, frames, config, connectionAttempts,
                 blockedIps, devicesByIp, out, crashed>>

\* The ips whose attempt record cleanup() deletes.
expired ==
  {ip \in DOMAIN connectionAttempts :
     /\ connectionAttempts[ip] # NoAttempt
     /\ (now - connectionAttempts[ip].firstAttempt) > config.connectionAttemptWindow}

\* SecurityManager.cleanup(), run by the interval timer.
Cleanup ==
  /\ ~crashed
  /\ UNCHANGED <<probe, codec, hook>>
  /\ now > 0
  /\ now % CleanupInterval = 0
  /\ connectionAttempts' =
       [ip \in DOMAIN connectionAttempts |->
          IF ip \in expired THEN NoAttempt ELSE connectionAttempts[ip]]
  /\ blockedIps' = blockedIps \ expired
  /\ out' = <<>>
  /\ UNCHANGED <<sock, clientIp, regVars, sends, frames, config, devicesByIp, now,
                 crashed>>
  /\ clients' = listeners(clients, out')

(* --------------------------- sendCommand ------------------------------ *)
NewSend(imei, command, c, result, timer) ==
  [imei |-> imei, command |-> command, conn |-> c, result |-> result,
   timer |-> timer]

SendCommand(imei, command) ==
  /\ ~crashed
  /\ UNCHANGED <<probe, codec, hook>>
  /\ LET c == getConnectionByImei(imei)
     IN IF c = NoConn
        THEN /\ sends' = Append(sends, NewSend(imei, command, NoConn,
                                               Outcome("notConnected"), "none"))
             /\ out' = <<>>
             /\ UNCHANGED objs
        ELSE IF socketDestroyed(objs[c].uuid)
        THEN /\ sends' = Append(sends, NewSend(imei, command, NoConn,
                                               Outcome("socketUnavailable"), "none"))
             /\ out' = <<>>
             /\ UNCHANGED objs
        ELSE /\ sends' = Append(sends, NewSend(imei, command, c, Pending,
                                               "armed"))
             /\ objs' = [objs EXCEPT ![c].pendingCommands = Append(@, Len(sends) + 1)]
             \* socket.write(commandBuffer): the frame built for this send
             /\ out' = <<[k |-> "writeCommand", u |-> objs[c].uuid, imei |-> imei,
                          val |-> <<Len(sends) + 1>>]>>
  /\ UNCHANGED <<sock, clientIp, sockets, connections, imeiToUuid, frames, secVars,
                 crashed>>
  /\ clients' = listeners(clients, out')

\* The setTimeout callback of send s. Every timer has the same delay
\* (commandTimeout), so Node fires them in the order they were armed.
Timeout(s) ==
  /\ ~crashed
  /\ UNCHANGED <<probe, codec, hook>>
  /\ out' = <<>>
  /\ s \in 1..Len(sends)
  /\ sends[s].timer = "armed"
  /\ \A r \in 1..(s - 1) : sends[r].timer # "armed"
  /\ LET c == sends[s].conn
         q == objs[c].pendingCommands
     IN /\ objs' = [objs EXCEPT ![c].pendingCommands =
                      splice(q, findIndex(q, sends, sends[s].command))]
        /\ sends' = [Settle(sends, s, Outcome("timeout")) EXCEPT ![s].timer = "fired"]
  /\ UNCHANGED <<sock, clientIp, sockets, connections, imeiToUuid, frames, secVars,
                 crashed>>
  /\ clients' = listeners(clients, out')

\* One run takes at most MaxInputs inputs; teardown and timers are not counted.
Next ==
  \/ inputs < MaxInputs /\ \E u \in UUIDs, ip \in IPs : Connect(u, ip)
  \/ inputs < MaxInputs /\ \E u \in UUIDs, imei \in IMEIs : RecvHandshake(u, imei)
  \/ inputs < MaxInputs /\ \E u \in UUIDs : RecvResponse(u)
  \/ \E u \in UUIDs : RecvBadResponse(u)
  \/ \E u \in UUIDs : SocketError(u)
  \/ \E u \in UUIDs : SocketClose(u)
  \/ inputs < MaxInputs /\ \E imei \in SendImeis, command \in Commands :
       SendCommand(imei, command)
  \/ \E s \in 1..Len(sends) : Timeout(s)

Spec == Init /\ [][Next]_vars

(* One device, one command text, many sends: the pipelining of sendCommand. *)
PipeInputs == 11

NextPipe ==
  \/ inputs < PipeInputs /\ Connect(1, "ip1")
  \/ inputs < PipeInputs /\ RecvHandshake(1, "imeiA")
  \/ inputs < PipeInputs /\ SendCommand("imeiA", "A")
  \/ inputs < PipeInputs /\ RecvResponse(1)
  \/ \E s \in 1..Len(sends) : Timeout(s)
  \/ SocketClose(1)

SpecPipe == Init /\ [][NextPipe]_vars

(* Handshakes, AVL batches and malformed chunks on the connections, with the
   IMEI allow-list off. *)
IoInputs == 3
MaxBatch == 2

\* The Timestamp values of the records: two of them give every tie and every
\* inversion the comparator of the sort can meet.
Times == {1, 2}

\* An AVL record: its Timestamp and its place in the packet.
Batches ==
  UNION {{[k \in 1..n |-> [ts |-> f[k], n |-> k]] : f \in [1..n -> Times]} :
         n \in 0..MaxBatch}

IoImeis == {"imeiA", "imeiB", "imeiBad"}

InitIo ==
  /\ sock = [u \in UUIDs |-> "none"]
  /\ clientIp = [u \in UUIDs |-> ""]
  /\ sockets = [u \in UUIDs |-> NoSocket]
  /\ connections = [u \in UUIDs |-> NoConn]
  /\ objs = <<>>
  /\ imeiToUuid = [i \in IMEIs |-> NoUuid]
  /\ sends = <<>>
  /\ frames = <<>>
  /\ config = DefaultConfig
  /\ connectionAttempts = [ip \in IPs |-> NoAttempt]
  /\ blockedIps = {}
  /\ devicesByIp = [ip \in IPs |-> {}]
  /\ now = 0
  /\ out = <<>>
  /\ crashed = FALSE
  /\ probe = NoProbe
  /\ codec = NoCodec
  /\ clients = NoClients
  /\ hook = NoHook

NextIo ==
  \/ inputs < IoInputs /\ \E u \in UUIDs, ip \in IPs : Connect(u, ip)
  \/ inputs < IoInputs /\ \E u \in UUIDs, imei \in IoImeis : RecvHandshake(u, imei)
  \/ \E u \in UUIDs, records \in Batches : RecvAvl(u, records)
  \/ \E u \in UUIDs : RecvMalformed(u)
  \/ \E u \in UUIDs : SocketError(u)
  \/ \E u \in UUIDs : SocketClose(u)

SpecIo == InitIo /\ [][NextIo]_vars

(* Handshakes alone: every kind of IMEI a device can send, with the allow-list
   off or on, over sessions that open, fail and close. *)
HsInputs == 4

HsImeis == {"imeiA", "imeiB", "imeiBad", "imeiFmt"}

InitHs ==
  /\ sock = [u \in UUIDs |-> "none"]
  /\ clientIp = [u \in UUIDs |-> ""]
  /\ sockets = [u \in UUIDs |-> NoSocket]
  /\ connections = [u \in UUIDs |-> NoConn]
  /\ objs = <<>>
  /\ imeiToUuid = [i \in IMEIs |-> NoUuid]
  /\ sends = <<>>
  /\ frames = <<>>
  /\ config \in {DefaultConfig,
                 [DefaultConfig EXCEPT !.imeiWhitelistEnabled = TRUE,
                                       !.imeiWhitelist = <<"imeiA">>]}
  /\ connectionAttempts = [ip \in IPs |-> NoAttempt]
  /\ blockedIps = {}
  /\ devicesByIp = [ip \in IPs |-> {}]
  /\ now = 0
  /\ out = <<>>
  /\ crashed = FALSE
  /\ probe = NoProbe
  /\ codec = NoCodec
  /\ clients = NoClients
  /\ hook = NoHook

NextHs ==
  \/ inputs < HsInputs /\ \E u \in UUIDs, ip \in IPs : Connect(u, ip)
  \/ inputs < HsInputs /\ \E u \in UUIDs, imei \in HsImeis : RecvHandshake(u, imei)
  \/ \E u \in UUIDs : RecvMalformed(u)
  \/ \E u \in UUIDs : SocketError(u)
  \/ \E u \in UUIDs : SocketClose(u)

SpecHs == InitHs /\ [][NextHs]_vars

(* One source opens connection after connection, each once the one before is
   closed, and every handshake carries an IMEI that fails validation, while
   the clock runs and cleanup() fires. *)
BanConn == 8
MaxTicks == 8

BanUUIDs == 1..BanConn

InitBan ==
  /\ sock = [u \in BanUUIDs |-> "none"]
  /\ clientIp = [u \in BanUUIDs |-> ""]
  /\ sockets = [u \in BanUUIDs |-> NoSocket]
  /\ connections = [u \in BanUUIDs |-> NoConn]
  /\ objs = <<>>
  /\ imeiToUuid = [i \in IMEIs |-> NoUuid]
  /\ sends = <<>>
  /\ frames = <<>>
  /\ config = DefaultConfig
  /\ connectionAttempts = [ip \in IPs |-> NoAttempt]
  /\ blockedIps = {}
  /\ devicesByIp = [ip \in IPs |-> {}]
  /\ now = 0
  /\ out = <<>>
  /\ crashed = FALSE
  /\ probe = NoProbe
  /\ codec = NoCodec
  /\ clients = NoClients
  /\ hook = NoHook

NextBan ==
  \/ /\ \A v \in BanUUIDs : sock[v] \in {"none", "closed"}
     /\ \E u \in BanUUIDs, ip \in IPs : Connect(u, ip)
  \/ \E u \in BanUUIDs : RecvHandshake(u, "imeiBad")
  \/ \E u \in BanUUIDs : SocketClose(u)
  \/ now < MaxTicks * CleanupInterval /\ Tick
  \/ Cleanup

SpecBan == InitBan /\ [][NextBan]_vars

(* The IMEI checks on strings of their own: 353691844288760 with any two of its
   characters replaced by any digits or by a character that is no digit (10
   stands for it), and its prefixes and extensions of other lengths. *)
MaxImeiLen == 16

BaseImei == ImeiDigits("imeiA")

LuhnInputs ==
  {[BaseImei EXCEPT ![i] = a, ![j] = b] : i, j \in 1..15, a, b \in 0..10}
  \cup {[k \in 1..n |-> IF k <= 15 THEN BaseImei[k] ELSE a] :
          n \in 13..MaxImeiLen, a \in 0..9}

InitLuhn ==
  /\ sock = [u \in UUIDs |-> "none"]
  /\ clientIp = [u \in UUIDs |-> ""]
  /\ sockets = [u \in UUIDs |-> NoSocket]
  /\ connections = [u \in UUIDs |-> NoConn]
  /\ objs = <<>>
  /\ imeiToUuid = [i \in IMEIs |-> NoUuid]
  /\ sends = <<>>
  /\ frames = <<>>
  /\ config = DefaultConfig
  /\ connectionAttempts = [ip \in IPs |-> NoAttempt]
  /\ blockedIps = {}
  /\ devicesByIp = [ip \in IPs |-> {}]
  /\ now = 0
  /\ out = <<>>
  /\ crashed = FALSE
  /\ \E d \in LuhnInputs : probe = [imei |-> d, verdict |-> "none"]
  /\ codec = NoCodec
  /\ clients = NoClients
  /\ hook = NoHook

\* The format test and luhnCheck, as validateImei runs them, on the string.
CheckImei ==
  /\ probe.verdict = "none"
  /\ probe' = [probe EXCEPT !.verdict =
                 IF imeiWellFormed(probe.imei) THEN "valid" ELSE "invalid"]
  /\ UNCHANGED <<sock, clientIp, regVars, sends, frames, secVars, out, crashed,
                 codec, clients, hook>>

NextLuhn == CheckImei

SpecLuhn == InitLuhn /\ [][NextLuhn]_vars

(* Devices of one source behind a small per-source cap
   (SECURITY_MAX_DEVICES_PER_IP) and with two attempts allowed per window
   (SECURITY_MAX_CONN_ATTEMPTS), with valid IMEIs only. *)
CapConn == 4
CapInputs == 6
MaxCap == 2

CapUUIDs == 1..CapConn
CapImeis == {"imeiA", "imeiB", "imeiC"}

InitCap ==
  /\ sock = [u \in CapUUIDs |-> "none"]
  /\ clientIp = [u \in CapUUIDs |-> ""]
  /\ sockets = [u \in CapUUIDs |-> NoSocket]
  /\ connections = [u \in CapUUIDs |-> NoConn]
  /\ objs = <<>>
  /\ imeiToUuid = [i \in CapImeis |-> NoUuid]
  /\ sends = <<>>
  /\ frames = <<>>
  /\ config \in {[DefaultConfig EXCEPT !.maxDevicesPerIp = c,
                                        !.maxConnectionAttempts = 2] : c \in 1..MaxCap}
  /\ connectionAttempts = [ip \in IPs |-> NoAttempt]
  /\ blockedIps = {}
  /\ devicesByIp = [ip \in IPs |-> {}]
  /\ now = 0
  /\ out = <<>>
  /\ crashed = FALSE
  /\ probe = NoProbe
  /\ codec = NoCodec
  /\ clients = NoClients
  /\ hook = NoHook

NextCap ==
  \/ inputs < CapInputs /\ \E u \in CapUUIDs, ip \in IPs : Connect(u, ip)
  \/ inputs < CapInputs /\ \E u \in CapUUIDs, imei \in CapImeis : RecvHandshake(u, imei)
  \/ \E u \in CapUUIDs : SocketClose(u)

SpecCap == InitCap /\ [][NextCap]_vars

(* ------------------------------ Codec 12 ------------------------------ *)
RECURSIVE xor(_, _)
\* a ^ b on non-negative integers, bit by bit.
xor(a, b) ==
  IF a = 0 THEN b
  ELSE IF b = 0 THEN a
  ELSE (((a % 2) + (b % 2)) % 2) + 2 * xor(a \div 2, b \div 2)

\* The inner loop of calculateCRC16: eight shifts, polynomial 0xA001.
crcBits(crc) ==
  LET B[j \in 0..8] ==
        IF j = 0 THEN crc
        ELSE LET crc1 == B[j - 1]
             IN IF crc1 % 2 # 0 THEN xor(crc1 \div 2, 40961) ELSE crc1 \div 2
  IN B[8]

RECURSIVE crcLoop(_, _, _, _)
\* The outer loop of calculateCRC16 over data[lo..hi], entered with crc; the
\* range is run as its first half and then its second half.
crcLoop(data, lo, hi, crc) ==
  IF lo > hi THEN crc
  ELSE IF lo = hi THEN crcBits(xor(crc, data[lo]))
  ELSE LET mid == (lo + hi) \div 2
           half == crcLoop(data, lo, mid, crc)
       IN IF half < 0 THEN half ELSE crcLoop(data, mid + 1, hi, half)

\* calculateCRC16(data): CRC-16 IBM over the bytes, from 0x0000.
calculateCRC16(data) == crcLoop(data, 1, Len(data), 0) % 65536

\* Buffer.from(command, 'ascii'): one byte per character, its code modulo 256.
fromAscii(text) == [k \in 1..Len(text) |-> text[k] % 256]

\* buf.toString('ascii'): one character per byte, the high bit dropped.
toAscii(bytes) == [k \in 1..Len(bytes) |-> bytes[k] % 128]

\* buildCodec12Command(command): preamble, data size, 0x0C, quantity 1, type
\* 0x05, command size, command, quantity 2, CRC-16 of the data part in 4 bytes.
buildCodec12Command(command) ==
  LET commandBuffer == fromAscii(command)
      commandSize == Len(commandBuffer)
      dataSize == 1 + 1 + 1 + 4 + commandSize + 1
      dataPart == <<12, 1, 5>> \o writeUInt32BE(commandSize) \o commandBuffer \o <<1>>
  IN writeUInt32BE(0) \o writeUInt32BE(dataSize) \o dataPart
       \o writeUInt32BE(calculateCRC16(dataPart))

\* data.readUInt32BE(offset) and data.readUInt8(offset), offsets from 0; the
\* caller has checked canRead, outside of which Node throws a RangeError.
readUInt32BE(data, offset) ==
  ((data[offset + 1] * 256 + data[offset + 2]) * 256 + data[offset + 3]) * 256
    + data[offset + 4]

readUInt8(data, offset) == data[offset + 1]

canRead(data, offset, n) == offset >= 0 /\ offset + n <= Len(data)

\* data.slice(from, to): clamped to the buffer.
slice(data, from, to) ==
  LET a == IF from > Len(data) THEN Len(data) ELSE from
      b == IF to > Len(data) THEN Len(data) ELSE to
  IN IF b <= a THEN <<>> ELSE SubSeq(data, a + 1, b)

Failure(error) == [success |-> FALSE, response |-> <<>>, error |-> error]

\* parseCodec12Response(data), check by check; a read past the end of the
\* buffer throws and the catch turns it into a parse error. A CRC that does
\* not match is logged and the response is returned all the same.
parseCodec12Response(data) ==
  IF Len(data) < 20 THEN Failure("Buffer too small for Codec 12 response")
  ELSE IF readUInt32BE(data, 0) # 0 THEN Failure("Invalid preamble")
  ELSE LET dataSize == readUInt32BE(data, 4)
       IN IF Len(data) < 8 + dataSize + 4 THEN Failure("Incomplete message")
          ELSE IF readUInt8(data, 8) # 12 THEN Failure("Invalid Codec ID")
          ELSE IF readUInt8(data, 10) # 6 THEN Failure("Invalid response type")
          ELSE LET quantity1 == readUInt8(data, 9)
                   responseSize == readUInt32BE(data, 11)
                   response == toAscii(slice(data, 15, 15 + responseSize))
                   offset == 15 + responseSize
               IN IF ~canRead(data, offset, 1) THEN Failure("Parse error")
                  ELSE IF quantity1 # readUInt8(data, offset)
                  THEN Failure("Quantity mismatch")
                  ELSE IF ~canRead(data, offset + 1, 4) THEN Failure("Parse error")
                  ELSE [success |-> TRUE, response |-> response, error |-> ""]

\* isCodec12Response(data): 12 bytes at least, zero preamble, codec id 0x0C at
\* offset 8 and type 0x06 at offset 10.
isCodec12Response(data) ==
  /\ Len(data) >= 12
  /\ readUInt32BE(data, 0) = 0
  /\ readUInt8(data, 8) = 12
  /\ readUInt8(data, 10) = 6

(* Command texts on their own: each is encoded as sendCommand encodes it, and
   the frame is handed to the parser the gateway has. *)
MaxText == 3

\* The character codes the texts are made of: NUL, space, 'g' and DEL.
Chars == {0, 32, 103, 127}

Texts == UNION {[1..n -> Chars] : n \in 1..MaxText}

InitCodec ==
  /\ sock = [u \in UUIDs |-> "none"]
  /\ clientIp = [u \in UUIDs |-> ""]
  /\ sockets = [u \in UUIDs |-> NoSocket]
  /\ connections = [u \in UUIDs |-> NoConn]
  /\ objs = <<>>
  /\ imeiToUuid = [i \in IMEIs |-> NoUuid]
  /\ sends = <<>>
  /\ frames = <<>>
  /\ config = DefaultConfig
  /\ connectionAttempts = [ip \in IPs |-> NoAttempt]
  /\ blockedIps = {}
  /\ devicesByIp = [ip \in IPs |-> {}]
  /\ now = 0
  /\ out = <<>>
  /\ crashed = FALSE
  /\ probe = NoProbe
  /\ \E text \in Texts : codec = [NoCodec EXCEPT !.text = text]
  /\ clients = NoClients
  /\ hook = NoHook

\* buildCodec12Command(text), then parseCodec12Response on the frame.
EncodeDecode ==
  /\ codec.frame = <<>>
  /\ LET frame == buildCodec12Command(codec.text)
     IN codec' = [codec EXCEPT !.frame = frame,
                               !.parsed = parseCodec12Response(frame)]
  /\ UNCHANGED <<sock, clientIp, regVars, sends, frames, secVars, out, crashed,
                 probe, clients, hook>>

NextCodec == EncodeDecode

SpecCodec == InitCodec /\ [][NextCodec]_vars

(* ------------------------- registry claims ---------------------------- *)
\* A session is Streaming once its handshake was accepted, while its socket is open.
Streaming(u) == sock[u] = "open" /\ sockets[u] # NoSocket

\* The uuid of the session registry lookup returns for an IMEI, NoUuid for none.
lookupUuid(imei) ==
  IF getConnectionByImei(imei) # NoConn
  THEN objs[getConnectionByImei(imei)].uuid
  ELSE NoUuid

\* C1: in every reachable state, for every Streaming session, looking up the
\* session's IMEI in the registry returns that same session.
C1_StreamingIsLookedUp ==
  \A u \in UUIDs : Streaming(u) => lookupUuid(sockets[u].imei) = u

\* C2: at any time, for every IMEI, at most one open connection is held as
\* registered, in the listener's socket table and in the connection table.
C2_OneSessionPerImei ==
  \A u, v \in UUIDs :
    (u # v /\ sock[u] = "open" /\ sock[v] = "open") =>
      /\ ~(sockets[u] # NoSocket /\ sockets[v] # NoSocket
             /\ sockets[u].imei = sockets[v].imei)
      /\ ~(connections[u] # NoConn /\ connections[v] # NoConn
             /\ objs[connections[u]].imei = objs[connections[v]].imei)

\* C3: when a connection u completes a handshake with an IMEI that is bound to
\* another open session v, u is closed and v stays the session lookup returns.
C3_ConflictClosesIncoming ==
  [][\A u, v \in UUIDs :
       (/\ u # v
        /\ Streaming(v)
        /\ lookupUuid(sockets[v].imei) = v
        /\ sock[u] = "open"
        /\ sockets[u] = NoSocket
        /\ sockets'[u] # NoSocket
        /\ sockets'[u].imei = sockets[v].imei)
       => (sock'[u] # "open" /\ lookupUuid(sockets[v].imei)' = v)]_vars

\* C4: the teardown of a session leaves the IMEI index unchanged when the
\* IMEI's current occupant is a different session.
C4_UnbindKeepsOtherOccupant ==
  [][\A u \in UUIDs :
       (connections[u] # NoConn /\ connections'[u] = NoConn) =>
         LET imei == objs[connections[u]].imei
         IN imeiToUuid[imei] # u => imeiToUuid'[imei] = imeiToUuid[imei]]_vars

(* ------------------------ dispatcher claims --------------------------- *)
\* The sends written to u's socket whose caller has no result yet.
outstanding(u) ==
  {s \in 1..Len(sends) : /\ sends[s].result.kind = "pending"
                         /\ sends[s].conn # NoConn
                         /\ objs[sends[s].conn].uuid = u}

oldest(S) == CHOOSE s \in S : \A r \in S : s <= r

\* This step parses a Codec 12 response on u's socket.
ResponseStep(u) == Len(frames') = Len(frames) + 1 /\ frames'[Len(frames')] = u

\* C5: each response parsed on a session completes the oldest command still
\* outstanding on that session, with that response.
C5_ResponsesPairedFifo ==
  [][\A u \in UUIDs :
       (ResponseStep(u) /\ outstanding(u) # {}) =>
         sends'[oldest(outstanding(u))].result =
           [kind |-> "response", frame |-> Len(frames')]]_vars

\* C6: every send completed with a response holds one response frame parsed on
\* the socket it was written to, and no frame completes two sends.
C6_ResponseHasOwnFrame ==
  \A s \in 1..Len(sends) :
    sends[s].result.kind = "response" =>
      /\ sends[s].conn # NoConn
      /\ sends[s].result.frame \in 1..Len(frames)
      /\ frames[sends[s].result.frame] = objs[sends[s].conn].uuid
      /\ \A r \in 1..Len(sends) :
           r # s => sends[r].result.frame # sends[s].result.frame

C6_Witness ==
  \E s, r \in 1..Len(sends) :
    /\ r # s
    /\ sends[s].result.kind = "response"
    /\ sends[r].conn = sends[s].conn

\* C7: when a session is torn down, every command still outstanding on it is
\* completed (session gone, or the write error of its own write) and its timer
\* is cancelled.
C7_TeardownCompletesPending ==
  [][\A u \in UUIDs :
       (sockets[u] # NoSocket /\ sockets'[u] = NoSocket) =>
         \A s \in outstanding(u) :
           /\ sends'[s].result.kind \in {"disconnected", "writeError"}
           /\ sends'[s].timer # "armed"]_vars

\* The entries of a queue that are still pending, s aside, in queue order.
RECURSIVE otherPending(_, _, _)
otherPending(q, ss, s) ==
  IF q = <<>> THEN <<>>
  ELSE IF Head(q) # s /\ ss[Head(q)].result.kind = "pending"
       THEN <<Head(q)>> \o otherPending(Tail(q), ss, s)
       ELSE otherPending(Tail(q), ss, s)

inQueue(o, s) == \E c \in 1..Len(o) : \E k \in 1..Len(o[c].pendingCommands) :
                   o[c].pendingCommands[k] = s

\* This step runs the deadline callback of send s.
TimeoutStep(s) == sends[s].timer = "armed" /\ sends'[s].timer = "fired"

\* C8: when the deadline of a command expires, its entry is out of the pending
\* queue and its caller gets the timeout; no socket is closed, the registry and
\* the socket table are unchanged, and every other pending entry keeps its
\* result, its timer and its place in its queue.
C8_TimeoutIsLocal ==
  [][\A s \in 1..Len(sends) :
       TimeoutStep(s) =>
         /\ sends[s].result.kind = "pending"
         /\ sends'[s].result.kind = "timeout"
         /\ ~inQueue(objs', s)
         /\ sock' = sock
         /\ sockets' = sockets
         /\ connections' = connections
         /\ imeiToUuid' = imeiToUuid
         /\ Len(objs') = Len(objs)
         /\ \A r \in 1..Len(sends) : r # s => sends'[r] = sends[r]
         /\ \A c \in 1..Len(objs) :
              otherPending(objs'[c].pendingCommands, sends', s) =
                otherPending(objs[c].pendingCommands, sends, s)]_vars

\* C9: at any moment a session holds at most 8 pending commands; a further
\* send is held back until a slot frees.
C9_PendingBounded ==
  \A u \in UUIDs : Cardinality(outstanding(u)) <= 8

\* This step is a sendCommand call.
SendStep == Len(sends') = Len(sends) + 1

writesOn(o, u) == SelectSeq(o, LAMBDA e : e.k = "write" /\ e.u = u)

\* The events of one name a handler emitted, in order.
eventsOf(o, k) == SelectSeq(o, LAMBDA e : e.k = k)

\* The Luhn sum as the specification words it: digits taken right to left (p = 1
\* is the last digit), every second one doubled and reduced by 9 above 9.
RefLuhnSum(d) ==
  LET n == Len(d)
      term(p) == LET x == d[n - p + 1]
                 IN IF p % 2 = 1 THEN x
                    ELSE IF 2 * x > 9 THEN 2 * x - 9 ELSE 2 * x
      S[p \in 0..n] == IF p = 0 THEN 0 ELSE S[p - 1] + term(p)
  IN S[n]

\* 15 decimal digits with Luhn sum 0 modulo 10.
RefImeiOk(d) ==
  /\ Len(d) = 15
  /\ \A k \in 1..Len(d) : d[k] \in 0..9
  /\ RefLuhnSum(d) % 10 = 0

\* C11: a handshake whose IMEI passes validation and admission makes the server
\* write the single byte 1; in the state the handler leaves, the session is
\* Streaming with that IMEI and the registry lookup of the IMEI returns it.
C11_HandshakeAccepted ==
  [][\A u \in UUIDs, imei \in HsImeis :
       (/\ RecvHandshake(u, imei)
        /\ RefImeiOk(ImeiDigits(imei))
        /\ (config.imeiWhitelistEnabled => includes(config.imeiWhitelist, imei))
        /\ validateConnection(clientIp[u], imei).allowed)
       => /\ writesOn(out', u) = <<Wr(u, <<1>>)>>
          /\ Streaming(u)'
          /\ sockets'[u].imei = imei
          /\ lookupUuid(imei)' = u]_vars

\* A handshake was just accepted on a second session that took an IMEI over.
C11_Witness ==
  \E u, v \in UUIDs :
    /\ u # v
    /\ out # <<>>
    /\ out[1] = Wr(u, <<1>>)
    /\ Streaming(u)
    /\ Streaming(v)
    /\ sockets[v].imei = sockets[u].imei

\* C12: a handshake whose IMEI fails the format check, the Luhn check or the
\* enabled allow-list makes the server write the single byte 0 and destroy the
\* socket; nothing is registered, the source's IMEI set is unchanged, no
\* connected event is emitted, and a destroyed unbound socket is never bound.
C12_HandshakeRejected ==
  [][/\ \A u \in UUIDs, imei \in HsImeis :
          (/\ RecvHandshake(u, imei)
           /\ \/ ~RefImeiOk(ImeiDigits(imei))
              \/ (config.imeiWhitelistEnabled /\ ~includes(config.imeiWhitelist, imei)))
          => /\ out' = <<Wr(u, <<0>>)>>
             /\ sock'[u] = "destroyed"
             /\ regVars' = regVars
             /\ devicesByIp' = devicesByIp
     /\ \A u \in UUIDs :
          (sock[u] \in {"destroyed", "closed"} /\ sockets[u] = NoSocket)
          => /\ sockets'[u] = NoSocket
             /\ connections'[u] = NoConn
             /\ \A i \in IMEIs : imeiToUuid'[i] = u => imeiToUuid[i] = u]_vars

\* A handshake was just refused while the allow-list was on.
C12_Witness ==
  \E u \in UUIDs :
    /\ out = <<Wr(u, <<0>>)>>
    /\ sock[u] = "destroyed"
    /\ sockets[u] = NoSocket
    /\ config.imeiWhitelistEnabled

C14_RecordsInTimeOrder ==
  [][\A u \in UUIDs, records \in Batches :
       (sockets[u] # NoSocket /\ RecvAvl(u, records)) =>
         LET m == eventsOf(out', "message")
         IN /\ Len(m) = Len(records)
            /\ \A i, j \in 1..Len(m) : i < j => m[i].val[1] <= m[j].val[1]
            /\ \A k \in 1..Len(records) :
                 \E i \in 1..Len(m) : m[i].val = <<records[k].ts, records[k].n>>
            /\ \A i \in 1..Len(m) : m[i].u = u /\ m[i].imei = sockets[u].imei]_vars

\* Records that came later on the wire were emitted first.
C14_Witness ==
  \E i, j \in 1..Len(out) :
    /\ i < j
    /\ out[i].k = "message"
    /\ out[j].k = "message"
    /\ out[i].val[2] > out[j].val[2]

\* C15: a chunk that cannot be decoded, received on a Streaming session, ends
\* the session: it is not Streaming afterwards.
C15_MalformedClosesSession ==
  [][\A u \in UUIDs : (RecvMalformed(u) /\ Streaming(u)) => ~Streaming(u)']_vars

\* C16: whatever the devices send, the process is never in the crashed state.
C16_NeverCrashed == ~crashed

\* C17: the step in which an authenticated session ends emits exactly one
\* disconnected event, carrying the session's IMEI.
C17_OneClosedEvent ==
  [][\A u \in UUIDs :
       (sockets[u] # NoSocket /\ sockets'[u] = NoSocket) =>
         /\ Len(eventsOf(out', "disconnected")) = 1
         /\ eventsOf(out', "disconnected")[1].imei = sockets[u].imei]_vars

\* C24: a handshake frame received on a session that is already Streaming
\* leaves the session's IMEI, the IMEIs the index holds for the session and
\* the session's queue of pending commands as they were.
C24_OneImeiPerSession ==
  [][\A u \in UUIDs, imei \in IMEIs :
       (Streaming(u) /\ RecvHandshake(u, imei)) =>
         /\ sockets'[u].imei = sockets[u].imei
         /\ {i \in IMEIs : imeiToUuid'[i] = u} = {i \in IMEIs : imeiToUuid[i] = u}
         /\ connections'[u] # NoConn
         /\ objs'[connections'[u]].pendingCommands =
              objs[connections[u]].pendingCommands]_vars

(* ------------------------- admission claims --------------------------- *)
\* C18: with 5 attempts allowed per 300 s window and every handshake rejected,
\* an open from a source that is not banned and has made fewer than five
\* attempts in its window is admitted; the open after five attempts in the
\* window is denied and sets a ban of 300 s; an open under a ban that has not
\* expired is denied; and a ban stays in force, with its expiry, until the
\* clock has reached that expiry.
C18_SoftBan ==
  [][\A ip \in IPs :
       LET att == connectionAttempts[ip]
           inBan == ip \in blockedIps /\ att.blockedUntil > now
           inWindow == att # NoAttempt /\ now - att.firstAttempt <= 300000
       IN /\ \A u \in BanUUIDs :
               Connect(u, ip) =>
                 /\ (~inBan /\ (~inWindow \/ att.attempts < 5)) => sock'[u] = "open"
                 /\ (~inBan /\ inWindow /\ att.attempts = 5) =>
                      /\ sock'[u] = "destroyed"
                      /\ ip \in blockedIps'
                      /\ connectionAttempts'[ip].blockedUntil = now + 300000
                 /\ inBan => sock'[u] = "destroyed"
          /\ (inBan /\ att.blockedUntil > now') =>
               /\ ip \in blockedIps'
               /\ connectionAttempts'[ip].blockedUntil = att.blockedUntil]_vars

\* C23: while a source's ban has not reached its expiry, every open from the
\* source is denied, and a run of the periodic sweep leaves the ban and its
\* expiry in place.
C23_BanOutlastsSweep ==
  [][\A ip \in IPs :
       LET att == connectionAttempts[ip]
           banned == ip \in blockedIps /\ att.blockedUntil > now
       IN /\ \A u \in BanUUIDs : (banned /\ Connect(u, ip)) => sock'[u] = "destroyed"
          /\ (banned /\ Cleanup) =>
               /\ ip \in blockedIps'
               /\ connectionAttempts'[ip] = att]_vars

\* C19: a handshake with a valid IMEI is denied for the per-source cap exactly
\* when the IMEI is not in the source's set and the set is already at the cap;
\* when it is allowed the IMEI is in the set afterwards; and the set never has
\* more members than the cap.
C19_PerSourceCap ==
  [][\A u \in CapUUIDs, imei \in CapImeis :
       RecvHandshake(u, imei) =>
         LET ip == clientIp[u]
             v == validateConnection(ip, imei)
             atCap == /\ imei \notin devicesByIp[ip]
                      /\ Cardinality(devicesByIp[ip]) >= config.maxDevicesPerIp
             deniedForCap == /\ sock'[u] = "destroyed"
                             /\ v.reason = "Maximum devices per IP exceeded"
         IN /\ deniedForCap <=> atCap
            /\ v.allowed => imei \in devicesByIp'[ip]
            /\ Cardinality(devicesByIp'[ip]) <= config.maxDevicesPerIp]_vars

\* C20: the IMEI checks before the allow-list accept exactly the strings of 15
\* decimal digits whose Luhn sum is 0 modulo 10; 353691844288760 is accepted
\* and 353691844288761 is rejected.
C20_LuhnExact ==
  probe.verdict # "none" =>
    /\ (probe.verdict = "valid") <=> RefImeiOk(probe.imei)
    /\ probe.imei = <<3,5,3,6,9,1,8,4,4,2,8,8,7,6,0>> => probe.verdict = "valid"
    /\ probe.imei = <<3,5,3,6,9,1,8,4,4,2,8,8,7,6,1>> => probe.verdict = "invalid"

\* Some string other than the specification's example was accepted.
C20_Witness ==
  /\ probe.verdict = "valid"
  /\ probe.imei # <<3,5,3,6,9,1,8,4,4,2,8,8,7,6,0>>

(* ------------------------- chunks of bytes ---------------------------- *)
\* A device's Codec 12 response frame: the structure of the command frame with
\* type 0x06, quantity bytes q1 and q2 and the text's bytes.
ResponseFrame(text, q1, q2) ==
  LET dataPart == <<12, q1, 6>> \o writeUInt32BE(Len(text)) \o text \o <<q2>>
  IN writeUInt32BE(0) \o writeUInt32BE(Len(dataPart)) \o dataPart
       \o writeUInt32BE(calculateCRC16(dataPart))

\* One Codec 8 AVL record with nothing but its timestamp: 8 bytes of timestamp,
\* priority, 15 bytes of GPS element, and an IO element with no properties.
AvlRecordBytes(ts) ==
  writeUInt32BE(0) \o writeUInt32BE(ts) \o [k \in 1..22 |-> 0]

RECURSIVE AvlRecordsBytes(_)
AvlRecordsBytes(tss) ==
  IF tss = <<>> THEN <<>> ELSE AvlRecordBytes(Head(tss)) \o AvlRecordsBytes(Tail(tss))

\* A device's Codec 8 packet with the records of the timestamps tss.
AvlFrame(tss) ==
  LET dataPart == <<8, Len(tss)>> \o AvlRecordsBytes(tss) \o <<Len(tss)>>
  IN writeUInt32BE(0) \o writeUInt32BE(Len(dataPart)) \o dataPart
       \o writeUInt32BE(calculateCRC16(dataPart))

\* A device's handshake: two bytes of length and the 15 digits in ASCII.
HandshakeFrame(imei) == <<0, 15>> \o [k \in 1..15 |-> 48 + ImeiDigits(imei)[k]]

\* new ProtocolParser(packet) on a buffer that is one whole Codec 8 packet: the
\* AVL_Datas, in wire order, with their Timestamp.
AvlDatas(data) ==
  [k \in 1..readUInt8(data, 9) |->
     [ts |-> readUInt32BE(data, 10 + 30 * (k - 1) + 4), n |-> k]]

\* The chunks a socket delivers: whole frames, two frames in one chunk, a frame
\* cut in two, and a response whose quantity bytes differ.
Chunks ==
  LET R == ResponseFrame(<<103>>, 1, 1)
      A == AvlFrame(<<2, 1>>)
  IN {HandshakeFrame("imeiA"), R, A, R \o A, SubSeq(R, 1, 14),
      SubSeq(R, 15, Len(R)), ResponseFrame(<<103>>, 1, 2)}

\* sock.on("data"), from the bytes of the chunk: the Codec 12 test first, then
\* processPacket's cases (34 hex digits, a preamble other than 00000000, or a
\* packet for ProtocolParser). The whole chunk is taken as one packet.
RecvChunk(u, data) ==
  IF isCodec12Response(data)
  THEN IF parseCodec12Response(data).success
       THEN RecvResponse(u)
       ELSE RecvBadResponse(u)
  ELSE IF Len(data) = 17
  THEN \E imei \in IMEIs : data = HandshakeFrame(imei) /\ RecvHandshake(u, imei)
  ELSE IF Len(data) < 4 \/ readUInt32BE(data, 0) # 0
  THEN RecvMalformed(u)
  ELSE RecvAvl(u, AvlDatas(data))

(* Connections driven by chunks of bytes, with commands sent to the device. *)
ChunkInputs == 5

NextChunk ==
  \/ inputs < ChunkInputs /\ \E u \in UUIDs, ip \in IPs : Connect(u, ip)
  \/ inputs < ChunkInputs /\ \E u \in UUIDs, data \in Chunks : RecvChunk(u, data)
  \/ inputs < ChunkInputs /\ SendCommand("imeiA", "A")
  \/ \E s \in 1..Len(sends) : Timeout(s)
  \/ \E u \in UUIDs : SocketClose(u)

SpecChunk == Init /\ [][NextChunk]_vars

(* --------------------------- codec claims ----------------------------- *)
\* C21: for every command text, parsing the frame the request encoder builds
\* for it returns success with exactly that text.
C21_Codec12RoundTrip ==
  codec.frame # <<>> =>
    /\ codec.parsed.success
    /\ codec.parsed.response = codec.text

\* C22: a Codec 12 response parsed on a Streaming session whose queue is empty
\* is emitted as one response event with the session's IMEI, followed by the
\* commandResponse event; no send changes, no socket changes, and the session
\* stays Streaming and registered as it was.
C22_UnsolicitedResponse ==
  [][\A u \in UUIDs :
       (/\ ResponseStep(u)
        /\ Streaming(u)
        /\ (connections[u] # NoConn => objs[connections[u]].pendingCommands = <<>>))
       => /\ out' = <<Ev("response", u, sockets[u].imei, <<Len(frames')>>),
                      Ev("commandResponse", u, sockets[u].imei, <<Len(frames')>>)>>
          /\ sends' = sends
          /\ objs' = objs
          /\ sock' = sock
          /\ ~crashed'
          /\ Streaming(u)'
          /\ sockets' = sockets
          /\ connections' = connections
          /\ imeiToUuid' = imeiToUuid]_vars

\* An unsolicited response has just been emitted for a session that had
\* completed a command before.
C22_Witness ==
  \E u \in UUIDs :
    /\ Streaming(u)
    /\ Len(out) = 2
    /\ out[1].k = "response"
    /\ out[1].u = u
    /\ \E s \in 1..Len(sends) :
         /\ sends[s].result.kind = "response"
         /\ sends[s].conn = connections[u]

(* --------------------------- chunk claims ----------------------------- *)
RECURSIVE framesOf(_)
\* The kinds of the complete frames a byte string is made of, in order: each
\* frame is 8 + data size + 4 bytes long and its codec id tells its kind; a
\* string that holds anything else than well-formed frames has none.
framesOf(data) ==
  IF Len(data) < 12 \/ readUInt32BE(data, 0) # 0 THEN <<>>
  ELSE LET size  == 8 + readUInt32BE(data, 4) + 4
           frame == SubSeq(data, 1, size)
           rest  == SubSeq(data, size + 1, Len(data))
       IN IF Len(data) < size THEN <<>>
          ELSE IF readUInt8(data, 8) = 12 /\ ~parseCodec12Response(frame).success
          THEN <<>>
          ELSE IF rest # <<>> /\ framesOf(rest) = <<>> THEN <<>>
          ELSE <<IF readUInt8(data, 8) = 12 THEN "response" ELSE "avl">>
                 \o framesOf(rest)

\* C25: when a chunk made of complete frames arrives on a Streaming session,
\* every one of its frames is decoded, in order: a response is handed to the
\* dispatcher and an AVL batch is acknowledged, whatever the chunk boundaries.
C25_FramesNotChunks ==
  [][\A u \in UUIDs, data \in Chunks :
       (Streaming(u) /\ framesOf(data) # <<>> /\ RecvChunk(u, data)) =>
         (IF ResponseStep(u) THEN <<"response">> ELSE <<>>)
           \o (IF writesOn(out', u) # <<>> THEN <<"avl">> ELSE <<>>)
         = framesOf(data)]_vars

(* ------------------------ ordering claims ----------------------------- *)
\* C26: in the handling of an AVL batch on an authenticated session, the
\* acknowledgement is written to the socket before any record of the batch is
\* emitted: no message event comes before the write.
C26_AckBeforeRecords ==
  [][\A u \in UUIDs, records \in Batches :
       (sockets[u] # NoSocket /\ RecvAvl(u, records)) =>
         \A i, j \in 1..Len(out') :
           (out'[i].k = "write" /\ out'[j].k = "message") => i < j]_vars

(* ------------------------ write-error claims -------------------------- *)
\* This step runs the write callback of send s with an error.
WriteErrorStep(s) ==
  sends[s].result.kind = "pending" /\ sends'[s].result.kind = "writeError"

\* C27: when the socket write of a command fails, that command's entry is out
\* of the pending queue, its timer is cancelled and its caller gets the write
\* error; every other entry that is still pending afterwards, one with the same
\* command text included, is still in its queue, in its original position.
C27_WriteErrorIsLocal ==
  [][\A s \in 1..Len(sends) :
       WriteErrorStep(s) =>
         /\ ~inQueue(objs', s)
         /\ sends'[s].timer # "armed"
         /\ Len(objs') = Len(objs)
         /\ \A c \in 1..Len(objs) :
              otherPending(objs'[c].pendingCommands, sends', s) =
                otherPending(objs[c].pendingCommands, sends', s)]_vars

(* ------------------------ malformed responses ------------------------- *)
\* C28: a chunk that is classified as a Codec 12 response but does not parse
\* (truncated, quantity bytes that differ) dequeues and completes nothing: the
\* pending queues and the commands' results and timers are as before.
C28_OnlyWellFormedDequeues ==
  [][\A u \in UUIDs, data \in Chunks :
       (/\ isCodec12Response(data)
        /\ ~parseCodec12Response(data).success
        /\ RecvChunk(u, data))
       => objs' = objs /\ sends' = sends]_vars

(* ------------------------- attempt claims ----------------------------- *)
\* The connections a source has opened so far (the clock stands still, so all
\* of them fall in one attempt window).
openedFrom(ip) == {v \in DOMAIN sock : sock[v] # "none" /\ clientIp[v] = ip}

\* C29: the admission check at handshake time is no further connection
\* attempt: when a source has opened no more connections than
\* maxConnectionAttempts and is below its device cap, the first handshake of
\* one of its open connections is accepted and the source is not banned.
C29_HandshakeIsNoAttempt ==
  [][\A u \in CapUUIDs, imei \in CapImeis :
       (/\ RecvHandshake(u, imei)
        /\ sockets[u] = NoSocket
        /\ clientIp[u] \notin blockedIps
        /\ Cardinality(openedFrom(clientIp[u])) <= config.maxConnectionAttempts
        /\ Cardinality(devicesByIp[clientIp[u]] \cup {imei}) <= config.maxDevicesPerIp)
       => /\ sock'[u] = "open"
          /\ sockets'[u] # NoSocket
          /\ clientIp[u] \notin blockedIps']_vars

(* ------------------------ bound-set claims ---------------------------- *)
\* The IMEIs carried by the authenticated sessions from ip in the table st.
carriedFrom(st, ip) ==
  {st[u].imei : u \in {v \in DOMAIN st : st[v] # NoSocket /\ st[v].ip = ip}}

\* C30: the set of IMEIs recorded as bound from a source follows the sessions
\* of that source: an IMEI leaves the set only in a step after which no
\* authenticated session from that source carries it.
C30_BoundSetFollowsSessions ==
  [][\A ip \in IPs :
       \A imei \in devicesByIp[ip] \ devicesByIp'[ip] :
         imei \notin carriedFrom(sockets', ip)]_vars

(* ------------------------- registry claims ---------------------------- *)
\* C31: the two maps of the registry agree in every reachable state: an IMEI
\* the index maps to a session id has, under that id, a connection whose IMEI
\* it is, so isDeviceConnected(imei) holds exactly when getConnectionByImei(imei)
\* returns a connection of that IMEI.
C31_RegistryMapsAgree ==
  \A imei \in DOMAIN imeiToUuid :
    isDeviceConnected(imei) =>
      /\ getConnectionByImei(imei) # NoConn
      /\ objs[getConnectionByImei(imei)].imei = imei

(* ----------------------- opens of one source -------------------------- *)
(* One source opens connection after connection, with two attempts allowed per
   window and the source allow-list off, on with the source in it, or on
   without it, while the clock runs and cleanup() fires. *)
OpenConn == 5
OpenTicks == 6

OpenUUIDs == 1..OpenConn

InitOpen ==
  /\ sock = [u \in OpenUUIDs |-> "none"]
  /\ clientIp = [u \in OpenUUIDs |-> ""]
  /\ sockets = [u \in OpenUUIDs |-> NoSocket]
  /\ connections = [u \in OpenUUIDs |-> NoConn]
  /\ objs = <<>>
  /\ imeiToUuid = [i \in IMEIs |-> NoUuid]
  /\ sends = <<>>
  /\ frames = <<>>
  /\ config \in {[DefaultConfig EXCEPT !.maxConnectionAttempts = 2,
                                        !.ipWhitelistEnabled = e,
                                        !.ipWhitelist = l] :
                   e \in BOOLEAN, l \in {{}, {"ip1"}}}
  /\ connectionAttempts = [ip \in IPs |-> NoAttempt]
  /\ blockedIps = {}
  /\ devicesByIp = [ip \in IPs |-> {}]
  /\ now = 0
  /\ out = <<>>
  /\ crashed = FALSE
  /\ probe = NoProbe
  /\ codec = NoCodec
  /\ clients = NoClients
  /\ hook = NoHook

NextOpen ==
  \/ /\ \A v \in OpenUUIDs : sock[v] \in {"none", "closed"}
     /\ \E u \in OpenUUIDs, ip \in IPs : Connect(u, ip)
  \/ \E u \in OpenUUIDs : SocketClose(u)
  \/ now < OpenTicks * CleanupInterval /\ Tick
  \/ Cleanup

SpecOpen == InitOpen /\ [][NextOpen]_vars

\* C32: an open denied because the source is banned, or because the source
\* allow-list is enabled and the source is not on it, leaves the source's
\* attempt count, window start and ban expiry as they were; an open that
\* passes both checks counts as one more attempt of its window (the first of a
\* new window when there is no running one).
C32_DeniedOpenNotCounted ==
  [][\A u \in OpenUUIDs, ip \in IPs :
       Connect(u, ip) =>
         LET att == connectionAttempts[ip]
             banned == ip \in blockedIps /\ att.blockedUntil > now
             notAllowed == config.ipWhitelistEnabled /\ ip \notin config.ipWhitelist
             running == /\ att # NoAttempt
                        /\ now - att.firstAttempt <= config.connectionAttemptWindow
         IN /\ (banned \/ notAllowed) =>
                 /\ sock'[u] = "destroyed"
                 /\ connectionAttempts'[ip] = att
            /\ ~(banned \/ notAllowed) =>
                 /\ connectionAttempts'[ip].attempts =
                      (IF running THEN att.attempts + 1 ELSE 1)
                 /\ connectionAttempts'[ip].firstAttempt =
                      (IF running THEN att.firstAttempt ELSE now)]_vars

\* With the clock still at 0, the open after the one that set the ban has been
\* denied and the count is still the 3 of the banning open.
C32_Witness ==
  \E u \in DOMAIN sock :
    /\ u >= 4
    /\ sock[u] = "destroyed"
    /\ now = 0
    /\ clientIp[u] \in blockedIps
    /\ connectionAttempts[clientIp[u]].attempts = 3

(* -------------------------- reset claims ------------------------------ *)
\* The handler's output is that of an accepted handshake on u.
acceptedOn(o, u) == writesOn(o, u) # <<>> /\ writesOn(o, u)[1].val = <<1>>

\* C33: an accepted handshake leaves its source with no recorded attempts and
\* no ban, and the next maxConnectionAttempts opens of the source are not
\* denied for too many attempts: connections are numbered as they open, so
\* the open of u is among them when a session b bound from the source has
\* u - b <= maxConnectionAttempts.
C33_BindResetsAttempts ==
  [][\A u \in CapUUIDs :
       /\ ((\E imei \in CapImeis : RecvHandshake(u, imei)) /\ acceptedOn(out', u)) =>
            /\ connectionAttempts'[clientIp[u]] = NoAttempt
            /\ clientIp[u] \notin blockedIps'
       /\ \A ip \in IPs :
            (/\ Connect(u, ip)
             /\ \E b \in CapUUIDs :
                  /\ b < u
                  /\ u - b <= config.maxConnectionAttempts
                  /\ sockets[b] # NoSocket
                  /\ sockets[b].ip = ip)
            => validateConnection(ip, "").reason # "Too many connection attempts"]_vars

(* ----------------------- the IMEI allow-list --------------------------- *)
\* Array.prototype.indexOf, counted from 1; 0 when x is not in the list.
indexOf(list, x) ==
  IF includes(list, x)
  THEN CHOOSE k \in 1..Len(list) : list[k] = x /\ \A j \in 1..(k - 1) : list[j] # x
  ELSE 0

\* SecurityManager.addImeiToWhitelist(imei), from the admin channel.
addImeiToWhitelist(imei) ==
  /\ ~crashed
  /\ config' = [config EXCEPT !.imeiWhitelist =
                  IF includes(@, imei) THEN @ ELSE Append(@, imei)]
  /\ out' = <<>>
  /\ UNCHANGED <<sock, clientIp, regVars, sends, frames, connectionAttempts,
                 blockedIps, devicesByIp, now, crashed, probe, codec,
                 clients, hook>>

\* SecurityManager.removeImeiFromWhitelist(imei): the first entry equal to imei
\* is spliced out.
removeImeiFromWhitelist(imei) ==
  /\ ~crashed
  /\ config' = [config EXCEPT !.imeiWhitelist = splice(@, indexOf(@, imei))]
  /\ out' = <<>>
  /\ UNCHANGED <<sock, clientIp, regVars, sends, frames, connectionAttempts,
                 blockedIps, devicesByIp, now, crashed, probe, codec,
                 clients, hook>>

\* SecurityManager.updateConfig({ imeiWhitelistEnabled: enabled }).
updateConfig(enabled) ==
  /\ ~crashed
  /\ config' = [config EXCEPT !.imeiWhitelistEnabled = enabled]
  /\ out' = <<>>
  /\ UNCHANGED <<sock, clientIp, regVars, sends, frames, connectionAttempts,
                 blockedIps, devicesByIp, now, crashed, probe, codec,
                 clients, hook>>

(* Handshakes while the admin channel switches the allow-list on and off and
   adds and removes IMEIs; SECURITY_IMEI_WHITELIST may name an IMEI twice. *)
ListInputs == 4

ListImeis == {"imeiA", "imeiB"}

InitList ==
  /\ sock = [u \in UUIDs |-> "none"]
  /\ clientIp = [u \in UUIDs |-> ""]
  /\ sockets = [u \in UUIDs |-> NoSocket]
  /\ connections = [u \in UUIDs |-> NoConn]
  /\ objs = <<>>
  /\ imeiToUuid = [i \in IMEIs |-> NoUuid]
  /\ sends = <<>>
  /\ frames = <<>>
  /\ config \in {[DefaultConfig EXCEPT !.imeiWhitelistEnabled = e,
                                        !.imeiWhitelist = l] :
                   e \in BOOLEAN, l \in {<<>>, <<"imeiA">>, <<"imeiA", "imeiA">>}}
  /\ connectionAttempts = [ip \in IPs |-> NoAttempt]
  /\ blockedIps = {}
  /\ devicesByIp = [ip \in IPs |-> {}]
  /\ now = 0
  /\ out = <<>>
  /\ crashed = FALSE
  /\ probe = NoProbe
  /\ codec = NoCodec
  /\ clients = NoClients
  /\ hook = NoHook

NextList ==
  \/ inputs < ListInputs /\ \E u \in UUIDs, ip \in IPs : Connect(u, ip)
  \/ inputs < ListInputs /\ \E u \in UUIDs, imei \in IoImeis : RecvHandshake(u, imei)
  \/ \E imei \in ListImeis : addImeiToWhitelist(imei)
  \/ \E imei \in ListImeis : removeImeiFromWhitelist(imei)
  \/ \E enabled \in BOOLEAN : updateConfig(enabled)
  \/ \E u \in UUIDs : SocketClose(u)

SpecList == InitList /\ [][NextList]_vars

\* C34: while the IMEI allow-list is enabled, a handshake is accepted only for
\* an IMEI that is in the list at that moment, and with the list empty no
\* handshake is accepted; while it is disabled, the outcome is that of the
\* format, checksum and admission tests, whatever the list holds.
C34_AllowListGoverns ==
  [][\A u \in UUIDs, imei \in IoImeis :
       RecvHandshake(u, imei) =>
         /\ (config.imeiWhitelistEnabled /\ acceptedOn(out', u)) =>
              includes(config.imeiWhitelist, imei)
         /\ (config.imeiWhitelistEnabled /\ config.imeiWhitelist = <<>>) =>
              ~acceptedOn(out', u)
         /\ ~config.imeiWhitelistEnabled =>
              (acceptedOn(out', u) <=>
                 /\ imeiWellFormed(ImeiDigits(imei))
                 /\ validateConnection(clientIp[u], imei).allowed)]_vars

\* With the allow-list enabled, a handshake has just been accepted for an IMEI
\* that only a runtime addition can have put in the list.
C34_Witness ==
  \E u \in DOMAIN sockets :
    /\ config.imeiWhitelistEnabled
    /\ acceptedOn(out, u)
    /\ sockets[u].imei = "imeiB"

(* --------------------- completion of every send ----------------------- *)
(* Sends of one command text to one IMEI over sessions that open, bind, bind
   again, are taken over and fail, with every armed timer firing in the end:
   setTimeout callbacks run once their delay has passed. *)
LiveInputs == 5

LiveImeis == {"imeiA", "imeiB"}

NextLive ==
  \/ inputs < LiveInputs /\ \E u \in UUIDs, ip \in IPs : Connect(u, ip)
  \/ inputs < LiveInputs /\ \E u \in UUIDs, imei \in LiveImeis : RecvHandshake(u, imei)
  \/ inputs < LiveInputs /\ \E u \in UUIDs : RecvResponse(u)
  \/ inputs < LiveInputs /\ SendCommand("imeiA", "A")
  \/ \E u \in UUIDs : SocketError(u)
  \/ \E u \in UUIDs : SocketClose(u)
  \/ \E s \in 1..LiveInputs : Timeout(s)

SpecLive ==
  Init /\ [][NextLive]_vars /\ WF_vars(\E s \in 1..LiveInputs : Timeout(s))

\* Send s has been made and its caller has no result yet.
pendingSend(s) == s <= Len(sends) /\ sends[s].result.kind = "pending"

\* C35: every call of sendCommand completes in the end, with a response, a
\* timeout, a write error or a disconnect error, provided timers fire: no send
\* stays pending for ever, whatever happens to its session meanwhile.
C35_EverySendCompletes ==
  \A s \in 1..LiveInputs : pendingSend(s) ~> ~pendingSend(s)

\* A send has completed by its timeout after its session's connection was
\* replaced by another registration under the same id.
C35_Witness ==
  \E s \in 1..Len(sends) :
    /\ sends[s].result.kind = "timeout"
    /\ sends[s].conn # NoConn
    /\ connections[objs[sends[s].conn].uuid] # sends[s].conn
    /\ connections[objs[sends[s].conn].uuid] # NoConn

(* ------------------------- late replies ------------------------------- *)
\* The number of response frames received on u's socket so far.
framesOn(u) == Cardinality({f \in 1..Len(frames) : frames[f] = u})

\* The device answers the commands it was sent, each once and in the order it
\* received them: it has a reply to give while it was written more commands
\* than it has answered.
DeviceReplies(u) ==
  /\ framesOn(u) < Len(writesFrom(u, 1))
  /\ RecvResponse(u)

(* One device on one session, commands of two texts, timers that fire before
   the device's reply arrives. *)
LateInputs == 5

NextLate ==
  \/ inputs < LateInputs /\ Connect(1, "ip1")
  \/ inputs < LateInputs /\ sockets[1] = NoSocket /\ RecvHandshake(1, "imeiA")
  \/ inputs < LateInputs /\ \E command \in Commands : SendCommand("imeiA", command)
  \/ inputs < LateInputs /\ DeviceReplies(1)
  \/ \E s \in 1..LateInputs : Timeout(s)

SpecLate == Init /\ [][NextLate]_vars

\* The send the frame f is the device's reply to: the k-th frame of a socket
\* answers the k-th command written to it.
repliedSend(f) ==
  LET u == frames[f]
      k == Cardinality({g \in 1..f : frames[g] = u})
  IN writesFrom(u, 1)[k]

\* C36: a send completes with no other response than the device's reply to
\* its own command: when A has timed out and the reply to A arrives while a
\* later B is pending, B does not complete with it.
C36_ReplyToOwnCommand ==
  \A s \in 1..Len(sends) :
    sends[s].result.kind = "response" => repliedSend(sends[s].result.frame) = s

(* ------------------- responses before the handshake ------------------- *)
\* C37: a Codec 12 response frame, well-formed or not, received on a
\* connection that has not completed the handshake completes no pending
\* command of any session, emits no event and leaves the registry, the socket
\* table and the sockets as they were.
C37_ResponseBeforeHandshake ==
  [][\A u \in UUIDs :
       (sockets[u] = NoSocket /\ (RecvResponse(u) \/ RecvBadResponse(u))) =>
         /\ sends' = sends
         /\ objs' = objs
         /\ out' = <<>>
         /\ connections' = connections
         /\ imeiToUuid' = imeiToUuid
         /\ sockets' = sockets
         /\ sock' = sock]_vars

\* A response frame has come in on an open connection that never bound, while
\* a command is pending on a session.
C37_Witness ==
  /\ frames # <<>>
  /\ sock[frames[Len(frames)]] = "open"
  /\ sockets[frames[Len(frames)]] = NoSocket
  /\ \E s \in 1..Len(sends) : sends[s].result.kind = "pending"

(* ----------------------- the publisher's clients ---------------------- *)
(* The server with index.ts's listeners attached: sessions that open, shake
   hands, stream one-record packets and close. *)
MqttInputs == 5
MqttImeis == {"imeiA", "imeiB"}

OneRecord == {<<[ts |-> 1, n |-> 1]>>}

InitMqtt ==
  /\ sock = [u \in UUIDs |-> "none"]
  /\ clientIp = [u \in UUIDs |-> ""]
  /\ sockets = [u \in UUIDs |-> NoSocket]
  /\ connections = [u \in UUIDs |-> NoConn]
  /\ objs = <<>>
  /\ imeiToUuid = [i \in IMEIs |-> NoUuid]
  /\ sends = <<>>
  /\ frames = <<>>
  /\ config = DefaultConfig
  /\ connectionAttempts = [ip \in IPs |-> NoAttempt]
  /\ blockedIps = {}
  /\ devicesByIp = [ip \in IPs |-> {}]
  /\ now = 0
  /\ out = <<>>
  /\ crashed = FALSE
  /\ probe = NoProbe
  /\ codec = NoCodec
  /\ clients = [attached |-> TRUE, held |-> {}]
  /\ hook = NoHook

NextMqtt ==
  \/ inputs < MqttInputs /\ \E u \in UUIDs, ip \in IPs : Connect(u, ip)
  \/ inputs < MqttInputs /\ \E u \in UUIDs, imei \in MqttImeis : RecvHandshake(u, imei)
  \/ \E u \in UUIDs, records \in OneRecord : RecvAvl(u, records)
  \/ \E u \in UUIDs : SocketClose(u)

SpecMqtt == InitMqtt /\ [][NextMqtt]_vars

\* C38: whenever an AVL record is emitted for an IMEI, the publisher's clients
\* table holds an MQTT client for that IMEI: the 'message' listener never
\* finds the entry missing.
C38_ClientForEveryRecord ==
  clients.attached =>
    \A k \in 1..Len(out) : out[k].k = "message" => out[k].imei \in clients.held

(* ------------------------- the command history ------------------------ *)
\* WebApiServer.handleSendCommand for the s-th sendCommand call: the status of
\* the history entry addCommand created before the call, once the await is
\* over. A resolved promise goes to updateCommandResponse, which sets
\* 'success' or 'error' by response.success; a rejected one goes to the catch
\* branch, which sends commandError and does not touch the entry.
historyStatus(s) ==
  LET r == sends[s].result.kind
  IN CASE r = "pending"      -> "pending"
       [] r = "disconnected" -> "pending"
       [] r = "response"     -> "success"
       [] OTHER              -> "error"

\* C39: the history entry of a command sent to a connected device leaves
\* 'pending' once the underlying send has ended, also when the send ended
\* because the device disconnected while the command was in flight.
C39_HistoryEntrySettles ==
  \A s \in 1..Len(sends) :
    (sends[s].conn # NoConn /\ sends[s].result.kind # "pending") =>
      historyStatus(s) # "pending"

(* ----------------------- the GPS webhook forwarder -------------------- *)
maxRetries == 3

\* Everything outside the forwarder.
serverVars == <<sock, clientIp, sockets, connections, objs, imeiToUuid, sends, frames,
                config, connectionAttempts, blockedIps, devicesByIp, now, out, crashed,
                probe, codec, clients>>

\* processQueue's while loop from its test on: queue.shift() and the fetch of
\* sendToWebhook, where the loop awaits; or isProcessing = false.
loop(h) ==
  IF h.queue = <<>>
  THEN [h EXCEPT !.isProcessing = FALSE, !.pc = "idle", !.data = 0]
  ELSE LET d == Head(h.queue)
       IN [h EXCEPT !.queue = Tail(@), !.data = d, !.posts[d] = @ + 1,
                    !.pc = "posting"]

processQueue(h) ==
  IF h.queue = <<>> \/ h.isProcessing THEN h
  ELSE loop([h EXCEPT !.isProcessing = TRUE])

\* sendToWebhook resolved: the try branch, and the loop goes on.
sent(h) == loop([h EXCEPT !.failureCount = 0, !.delivered = @ \cup {h.data}])

\* The catch branch with the counter left as it is when the item is dropped.
failedNoReset(h) ==
  LET n == h.failureCount + 1
  IN IF n < maxRetries
     THEN [h EXCEPT !.failureCount = n, !.queue = <<h.data>> \o @,
                    !.pc = "waiting", !.data = 0]
     ELSE loop([h EXCEPT !.failureCount = n])

\* sendToWebhook rejected: the catch branch. Under the limit the item goes
\* back to the head of the queue and the loop sleeps; at the limit the item
\* is dropped, the counter is reset and the loop goes on.
failed(h) ==
  LET n == h.failureCount + 1
  IN IF n < maxRetries
     THEN [h EXCEPT !.failureCount = n, !.queue = <<h.data>> \o @,
                    !.pc = "waiting", !.data = 0]
     ELSE loop([h EXCEPT !.failureCount = 0])

HookItems == 3

\* forwardGPSData(data) with the next new item.
forwardGPSData ==
  /\ hook.forwarded < HookItems
  /\ hook' = IF ~hook.enabled THEN hook
             ELSE LET d == hook.forwarded + 1
                      h == [hook EXCEPT !.forwarded = d, !.posts = Append(@, 0),
                                        !.queue = Append(@, d)]
                  IN IF h.isProcessing THEN h ELSE processQueue(h)
  /\ UNCHANGED serverVars

\* The fetch of sendToWebhook ends: a 2xx response, or anything else (another
\* status, a network error, the abort after config.timeout).
PostDone(ok) ==
  /\ hook.pc = "posting"
  /\ hook' = IF ok THEN sent(hook) ELSE failed(hook)
  /\ UNCHANGED serverVars

\* The setTimeout of the catch branch fires.
WaitDone ==
  /\ hook.pc = "waiting"
  /\ hook' = loop(hook)
  /\ UNCHANGED serverVars

InitHook ==
  /\ sock = [u \in UUIDs |-> "none"]
  /\ clientIp = [u \in UUIDs |-> ""]
  /\ sockets = [u \in UUIDs |-> NoSocket]
  /\ connections = [u \in UUIDs |-> NoConn]
  /\ objs = <<>>
  /\ imeiToUuid = [i \in IMEIs |-> NoUuid]
  /\ sends = <<>>
  /\ frames = <<>>
  /\ config = DefaultConfig
  /\ connectionAttempts = [ip \in IPs |-> NoAttempt]
  /\ blockedIps = {}
  /\ devicesByIp = [ip \in IPs |-> {}]
  /\ now = 0
  /\ out = <<>>
  /\ crashed = FALSE
  /\ probe = NoProbe
  /\ codec = NoCodec
  /\ clients = NoClients
  /\ \E e \in BOOLEAN : hook = [NoHook EXCEPT !.enabled = e]

NextHook ==
  \/ forwardGPSData
  \/ \E ok \in BOOLEAN : PostDone(ok)
  \/ WaitDone

\* Every fetch ends, by the abort timer at the latest, and every timer fires.
SpecHook ==
  /\ InitHook
  /\ [][NextHook]_vars
  /\ WF_vars(\E ok \in BOOLEAN : PostDone(ok))
  /\ WF_vars(WaitDone)

\* Item d is in the queue of h or in the hands of its loop.
inForwarder(h, d) == h.data = d \/ \E k \in 1..Len(h.queue) : h.queue[k] = d

\* C40: each item is POSTed at most maxRetries times, and the POST in flight
\* is always one more than the failures counted, so every item starts with
\* the counter at 0; the third failure in a row drops the item and resets the
\* counter; a delivered item is never POSTed again; and every item that is
\* queued leaves the forwarder.
C40_AtMostThreePosts ==
  /\ [](/\ hook.failureCount < maxRetries
        /\ \A d \in 1..Len(hook.posts) : hook.posts[d] <= maxRetries
        /\ hook.pc = "posting" => hook.posts[hook.data] = hook.failureCount + 1)
  /\ [][/\ \A d \in hook.delivered : hook'.posts[d] = hook.posts[d]
         /\ (PostDone(FALSE) /\ hook.failureCount = maxRetries - 1) =>
              /\ ~inForwarder(hook', hook.data)
              /\ hook.data \notin hook'.delivered
              /\ hook'.failureCount = 0]_vars
  /\ \A d \in 1..HookItems : inForwarder(hook, d) ~> ~inForwarder(hook, d)

\* One item was dropped after its third POST, and the item after it is in
\* its own third POST.
C40_Witness ==
  \E d \in 1..Len(hook.posts) :
    /\ hook.posts[d] = maxRetries
    /\ d \notin hook.delivered
    /\ ~inForwarder(hook, d)
    /\ hook.pc = "posting"
    /\ hook.data > d
    /\ hook.posts[hook.data] = maxRetries

====
